---- MODULE Spec2Model ----
(***************************************************************************)
(* Model of native/src/overlay/element.rs: the overlay handle `Element`    *)
(* (a position plus an owned `dyn Overlay`) and the message-mapping        *)
(* adapter `Map`.                                                          *)
(*                                                                         *)
(* A `Box<dyn Overlay>` is modelled as a record.  A concrete overlay is    *)
(* [tag |-> kind, state |-> n]; a Map adapter is                           *)
(* [tag |-> "map", content |-> <overlay>, mapper |-> <function>].          *)
(* Dynamic dispatch is the operator Dyn* that selects on the tag.          *)
(*                                                                         *)
(* The renderer, the style defaults and the clipboard are opaque           *)
(* references that every method forwards verbatim; they carry no data in   *)
(* this model.                                                             *)
(***************************************************************************)
EXTENDS Integers, Sequences, FiniteSets, TLC

\* ------------------------------------------------------------------ bounds
\* longest caller queue the model follows
MaxQueue == 2
\* most Map adapters stacked on one overlay
MaxDepth == 2
\* most translate calls on one handle
MaxTranslates == 2

\* ------------------------------------------------------------ value domains
Msgs == 0..2
Point(x, y) == [x |-> x, y |-> y]
Vector(x, y) == [x |-> x, y |-> y]
Size(w, h) == [width |-> w, height |-> h]
Rectangle(x, y, w, h) == [x |-> x, y |-> y, width |-> w, height |-> h]

StartPoints == {Point(1, 2)}
Vectors == {Vector(1, 0), Vector(-1, 2), Vector(0, -3)}
\* the vectors the Translate action draws from
Translations == {Vector(-1, 2)}
Bounds == {Size(1, 1), Size(4, 3)}
Layouts == {Rectangle(0, 0, 2, 2), Rectangle(1, 1, 2, 2)}
Cursors == {Point(0, 0), Point(1, 1)}
Events == {"press", "move"}
Kinds == {"menu", "burst", "exclusive", "replace"}
InitQueues == {<<>>, <<2>>}
Hashers == {<<>>, <<9>>}

Min(a, b) == IF a < b THEN a ELSE b

\* Point + Vector and Vector + Vector (crate::Point, crate::Vector)
PointAdd(p, v) == [x |-> p.x + v.x, y |-> p.y + v.y]
VectorAdd(v, w) == [x |-> v.x + w.x, y |-> v.y + w.y]

\* The mapping closures handed to Element::map
Saturate == [m \in Msgs |-> Min(m + 1, 2)]
Double == [m \in Msgs |-> (2 * m) % 3]
Mappers == {Saturate, Double}

\* ------------------------------------------------- concrete overlays (leaf)
\* Which item of a vertical list laid out in `layout` is under `cursor`
\* (0: none).  Each item is one unit high.
Hit(layout, cursor) ==
    IF /\ cursor.x >= layout.x /\ cursor.x < layout.x + layout.width
       /\ cursor.y >= layout.y /\ cursor.y < layout.y + layout.height
    THEN cursor.y - layout.y + 1
    ELSE 0

ContentSize(self) ==
    CASE self.tag = "menu" -> Size(2, 2)
      [] self.tag = "burst" -> Size(1, self.state + 2)
      [] self.tag = "exclusive" -> Size(1, 1)
      [] OTHER -> Size(5, 5)

OverlayLayout(self, bounds, position) ==
    LET c == ContentSize(self)
    IN Rectangle(position.x, position.y,
                 Min(bounds.width, c.width), Min(bounds.height, c.height))

Burst(n) == [i \in 1..(n + 1) |-> (n + i) % 3]

\* on_event of a concrete overlay: the overlay after the call, the queue it
\* was given after the call, and the interaction outcome.
\*   menu      - a press over item i pushes i and captures; a move sets the
\*               hovered item
\*   burst     - a press over it pushes state+1 messages and captures
\*   exclusive - pushes only into an empty queue, remembers how many
\*               messages were pending in the queue it was given
\*   replace   - clears the queue it is given before pushing
OverlayOnEvent(self, event, layout, cursor, messages) ==
    LET hit == Hit(layout, cursor)
        ignored == [overlay |-> self, messages |-> messages,
                    interaction |-> "Ignored"]
    IN CASE self.tag = "menu" ->
              IF event = "press" /\ hit \in 1..2
              THEN [overlay |-> self, messages |-> Append(messages, hit),
                    interaction |-> "Captured"]
              ELSE IF event = "move"
              THEN [overlay |-> [self EXCEPT !.state = IF hit \in 1..2 THEN hit ELSE 0],
                    messages |-> messages, interaction |-> "Ignored"]
              ELSE ignored
         [] self.tag = "burst" ->
              IF event = "press" /\ hit > 0
              THEN [overlay |-> [self EXCEPT !.state = (self.state + 1) % 2],
                    messages |-> messages \o Burst(self.state),
                    interaction |-> "Captured"]
              ELSE ignored
         [] self.tag = "exclusive" ->
              IF event = "press"
              THEN IF messages = <<>>
                   THEN [overlay |-> [self EXCEPT !.state = 0],
                         messages |-> <<1>>, interaction |-> "Captured"]
                   ELSE [overlay |-> [self EXCEPT !.state = Len(messages)],
                         messages |-> messages, interaction |-> "Ignored"]
              ELSE ignored
         [] OTHER ->
              IF event = "press" /\ hit > 0
              THEN [overlay |-> self, messages |-> <<2>>,
                    interaction |-> "Captured"]
              ELSE ignored

OverlayDraw(self, layout, cursor) ==
    [bounds |-> layout, highlighted |-> Hit(layout, cursor),
     state |-> self.state]

\* hash_layout of a concrete overlay: the anchor, then the data its layout
\* depends on.
OverlayHashLayout(self, state, position) ==
    LET anchored == state \o <<position.x, position.y>>
    IN IF self.tag = "burst" THEN Append(anchored, self.state) ELSE anchored

\* ----------------------------------------------------------------- Map
MapNew(content, mapper) ==
    [tag |-> "map", content |-> content, mapper |-> mapper]

\* Mutant: the buffer is emptied from its back.
RECURSIVE DrainIntoReversed(_, _, _)
DrainIntoReversed(original_messages, mapper, messages) ==
    IF original_messages = <<>>
    THEN messages
    ELSE DrainIntoReversed(
             SubSeq(original_messages, 1, Len(original_messages) - 1), mapper,
             Append(messages, mapper[original_messages[Len(original_messages)]]))

\* original_messages.drain(..).for_each(|m| messages.push((self.mapper)(m)))
RECURSIVE DrainInto(_, _, _)
DrainInto(original_messages, mapper, messages) ==
    IF original_messages = <<>>
    THEN messages
    ELSE DrainInto(Tail(original_messages), mapper,
                   Append(messages, mapper[Head(original_messages)]))

RECURSIVE DynLayout(_, _, _)
RECURSIVE DynOnEvent(_, _, _, _, _)
RECURSIVE DynDraw(_, _, _)
RECURSIVE DynHashLayout(_, _, _)

\* Mutant: the adapter lays its content out at the origin.
MapLayoutAtOrigin(self, bounds, position) ==
    DynLayout(self.content, bounds, Point(0, 0))

MapLayout(self, bounds, position) ==
    DynLayout(self.content, bounds, position)

\* Mutant: the adapter reports every event as ignored.
MapOnEventIgnores(self, event, layout, cursor_position, messages) ==
    LET inner == DynOnEvent(self.content, event, layout, cursor_position, <<>>)
    IN [overlay |-> [self EXCEPT !.content = inner.overlay],
        messages |-> DrainInto(inner.messages, self.mapper, messages),
        interaction |-> "Ignored"]

\* Mutant: the adapter delivers the event to a copy of its content.
MapOnEventOnCopy(self, event, layout, cursor_position, messages) ==
    LET inner == DynOnEvent(self.content, event, layout, cursor_position, <<>>)
    IN [overlay |-> self,
        messages |-> DrainInto(inner.messages, self.mapper, messages),
        interaction |-> inner.interaction]

\* Mutant: the adapter hands its content the caller's queue and maps the
\* whole queue afterwards.
MapOnEventInPlace(self, event, layout, cursor_position, messages) ==
    LET inner == DynOnEvent(self.content, event, layout, cursor_position,
                            messages)
    IN [overlay |-> [self EXCEPT !.content = inner.overlay],
        messages |-> DrainInto(inner.messages, self.mapper, <<>>),
        interaction |-> inner.interaction]

MapOnEvent(self, event, layout, cursor_position, messages) ==
    LET original_messages == <<>>
        inner == DynOnEvent(self.content, event, layout, cursor_position,
                            original_messages)
    IN [overlay |-> [self EXCEPT !.content = inner.overlay],
        messages |-> DrainInto(inner.messages, self.mapper, messages),
        interaction |-> inner.interaction]

MapDraw(self, layout, cursor_position) ==
    DynDraw(self.content, layout, cursor_position)

\* Mutant: the adapter feeds a marker of its own after its content's data.
MapHashLayoutTagged(self, state, position) ==
    Append(DynHashLayout(self.content, state, position), 7)

MapHashLayout(self, state, position) ==
    DynHashLayout(self.content, state, position)

\* Calls through Box<dyn Overlay>
DynLayout(overlay, bounds, position) ==
    IF overlay.tag = "map"
    THEN MapLayout(overlay, bounds, position)
    ELSE OverlayLayout(overlay, bounds, position)

DynOnEvent(overlay, event, layout, cursor_position, messages) ==
    IF overlay.tag = "map"
    THEN MapOnEvent(overlay, event, layout, cursor_position, messages)
    ELSE OverlayOnEvent(overlay, event, layout, cursor_position, messages)

DynDraw(overlay, layout, cursor_position) ==
    IF overlay.tag = "map"
    THEN MapDraw(overlay, layout, cursor_position)
    ELSE OverlayDraw(overlay, layout, cursor_position)

DynHashLayout(overlay, state, position) ==
    IF overlay.tag = "map"
    THEN MapHashLayout(overlay, state, position)
    ELSE OverlayHashLayout(overlay, state, position)

\* --------------------------------------------------------------- Element
ElementNew(position, overlay) ==
    [position |-> position, overlay |-> overlay]

\* Mutant: the translation replaces the position.
ElementTranslateAssigns(self, translation) ==
    [self EXCEPT !.position = Point(translation.x, translation.y)]

ElementTranslate(self, translation) ==
    [self EXCEPT !.position = PointAdd(self.position, translation)]

\* Mutant: the new handle starts at the default position.
ElementMapResetsPosition(self, f) ==
    [position |-> Point(0, 0), overlay |-> MapNew(self.overlay, f)]

\* Mutant: mapping an adapter replaces its mapper in place of nesting.
ElementMapReplaces(self, f) ==
    [position |-> self.position,
     overlay |-> IF self.overlay.tag = "map"
                 THEN [self.overlay EXCEPT !.mapper = f]
                 ELSE MapNew(self.overlay, f)]

ElementMap(self, f) ==
    [position |-> self.position, overlay |-> MapNew(self.overlay, f)]

ElementLayout(self, bounds) ==
    DynLayout(self.overlay, bounds, self.position)

ElementOnEvent(self, event, layout, cursor_position, messages) ==
    LET r == DynOnEvent(self.overlay, event, layout, cursor_position, messages)
    IN [element |-> [self EXCEPT !.overlay = r.overlay],
        messages |-> r.messages,
        interaction |-> r.interaction]

ElementDraw(self, layout, cursor_position) ==
    DynDraw(self.overlay, layout, cursor_position)

\* Mutant: the handle hashes with the default position as the anchor.
ElementHashLayoutAtOrigin(self, state) ==
    DynHashLayout(self.overlay, state, Point(0, 0))

ElementHashLayout(self, state) ==
    DynHashLayout(self.overlay, state, self.position)

\* ------------------------------------------------------ structural helpers
IsMap(overlay) == overlay.tag = "map"

RECURSIVE Depth(_)
Depth(overlay) == IF IsMap(overlay) THEN 1 + Depth(overlay.content) ELSE 0

RECURSIVE Innermost(_)
Innermost(overlay) ==
    IF IsMap(overlay) THEN Innermost(overlay.content) ELSE overlay

\* |x| g(f(x))
Compose(f, g) == [m \in Msgs |-> g[f[m]]]

\* The function a stack of adapters applies to a message of the innermost
\* overlay: innermost mapper first.
RECURSIVE Composite(_)
Composite(overlay) ==
    IF IsMap(overlay)
    THEN Compose(Composite(overlay.content), overlay.mapper)
    ELSE [m \in Msgs |-> m]

MapAll(f, s) == [i \in 1..Len(s) |-> f[s[i]]]

RECURSIVE SumVectors(_)
SumVectors(vs) ==
    IF vs = <<>> THEN Vector(0, 0)
    ELSE VectorAdd(SumVectors(SubSeq(vs, 1, Len(vs) - 1)), vs[Len(vs)])

IsPrefix(s, t) == Len(s) <= Len(t) /\ SubSeq(t, 1, Len(s)) = s
Suffix(s, n) == SubSeq(s, n + 1, Len(s))

\* ------------------------------------------------------------------- state
VARIABLES
    element,       \* the handle: [position, overlay]
    messages,      \* the caller's message queue
    last,          \* the last call on the handle: its arguments and result
    fused,         \* a second handle and queue put through the same calls,
                   \*   except that map(g) on a handle h.map(f) is made as
                   \*   h.map(|x| g(f(x)))
    created,       \* history: the position given to Element::new
    translations,  \* history: the vectors given to translate, in call order
    queue0,        \* history: the caller's queue when it was last emptied or
                   \*   last handed to an unmapped overlay
    delivered,     \* history: what the on_event calls through Map adapters
                   \*   since then should have delivered, call by call
    hashes         \* history: <<what the preceding hash_layout call fed>>, or
                   \*   <<>> when another call than map came after it

vars == <<element, messages, last, fused, created, translations, queue0,
          delivered, hashes>>

Call(op) == [op |-> op, result |-> "none"]

Init ==
    /\ \E p \in StartPoints, k \in Kinds :
          /\ element = ElementNew(p, [tag |-> k, state |-> 0])
          /\ created = p
    /\ messages \in InitQueues
    /\ fused = [element |-> element, messages |-> messages, result |-> "none"]
    /\ queue0 = messages
    /\ delivered = <<>>
    /\ translations = <<>>
    /\ hashes = <<>>
    /\ last = Call("new")

Translate ==
    /\ Len(translations) < MaxTranslates
    /\ \E v \in Translations :
          /\ element' = ElementTranslate(element, v)
          /\ fused' = [fused EXCEPT !.element = ElementTranslate(@, v),
                                    !.result = "none"]
          /\ translations' = Append(translations, v)
    /\ last' = Call("translate")
    /\ hashes' = <<>>
    /\ UNCHANGED <<messages, created, queue0, delivered>>

\* h.map(|x| g(f(x))) for the handle self = h.map(f)
MapFused(self, g) ==
    ElementMap(ElementNew(self.position, self.overlay.content),
               Compose(self.overlay.mapper, g))

MapCall ==
    /\ Depth(element.overlay) < MaxDepth
    /\ \E f \in Mappers :
          /\ element' = ElementMap(element, f)
          /\ fused' = [fused EXCEPT
                 !.element = IF IsMap(@.overlay)
                             THEN MapFused(@, f)
                             ELSE ElementMap(@, f),
                 !.result = "none"]
    /\ last' = Call("map")
    /\ UNCHANGED <<messages, created, translations, queue0, delivered, hashes>>

Layout ==
    /\ \E bounds \in Bounds :
          /\ last' = [op |-> "layout", bounds |-> bounds,
                      result |-> ElementLayout(element, bounds)]
          /\ fused' = [fused EXCEPT
                          !.result = ElementLayout(fused.element, bounds)]
    /\ hashes' = <<>>
    /\ UNCHANGED <<element, messages, created, translations, queue0,
                   delivered>>

OnEvent ==
    \E event \in Events, layout \in Layouts, cursor \in Cursors :
       LET r == ElementOnEvent(element, event, layout, cursor, messages)
           t == ElementOnEvent(fused.element, event, layout, cursor,
                               fused.messages)
           buffer == OverlayOnEvent(Innermost(element.overlay), event, layout,
                                    cursor, <<>>).messages
       IN /\ Len(r.messages) <= MaxQueue
          /\ element' = r.element
          /\ messages' = r.messages
          /\ last' = [op |-> "on_event", event |-> event, layout |-> layout,
                      cursor |-> cursor, result |-> r.interaction]
          /\ fused' = [element |-> t.element, messages |-> t.messages,
                       result |-> t.interaction]
          /\ IF IsMap(element.overlay)
             THEN /\ delivered' = delivered \o
                         MapAll(Composite(element.overlay), buffer)
                  /\ queue0' = queue0
             ELSE /\ delivered' = <<>>
                  /\ queue0' = r.messages
          /\ hashes' = <<>>
          /\ UNCHANGED <<created, translations>>

Draw ==
    /\ \E layout \in Layouts, cursor \in Cursors :
          /\ last' = [op |-> "draw", layout |-> layout, cursor |-> cursor,
                      result |-> ElementDraw(element, layout, cursor)]
          /\ fused' = [fused EXCEPT
                          !.result = ElementDraw(fused.element, layout, cursor)]
    /\ hashes' = <<>>
    /\ UNCHANGED <<element, messages, created, translations, queue0,
                   delivered>>

HashLayout ==
    /\ \E state \in Hashers :
         LET after == ElementHashLayout(element, state)
             fed == Suffix(after, Len(state))
         IN /\ last' = [op |-> "hash_layout", before |-> state,
                        result |-> after, fed |-> fed, previous |-> hashes]
            /\ fused' = [fused EXCEPT
                            !.result = ElementHashLayout(fused.element, state)]
            /\ hashes' = <<fed>>
    /\ UNCHANGED <<element, messages, created, translations, queue0,
                   delivered>>

\* The frame loop takes the messages out of its queue.
Drain ==
    /\ messages # <<>>
    /\ messages' = <<>>
    /\ fused' = [fused EXCEPT !.messages = <<>>, !.result = "none"]
    /\ queue0' = <<>>
    /\ delivered' = <<>>
    /\ last' = Call("drain")
    /\ hashes' = <<>>
    /\ UNCHANGED <<element, created, translations>>

Next ==
    \/ Translate
    \/ MapCall
    \/ Layout
    \/ OnEvent
    \/ Draw
    \/ HashLayout
    \/ Drain

Spec == Init /\ [][Next]_vars

\* ------------------------------------------------------------------ claims
OnEventThroughMap == last'.op = "on_event" /\ IsMap(element.overlay)

\* What the overlay wrapped by the handle's outer adapter does with the
\* arguments of the step's on_event call when it is handed `queue`.
ContentOnEvent(queue) ==
    DynOnEvent(element.overlay.content, last'.event, last'.layout,
               last'.cursor, queue)

\* C1: when the wrapped overlay leaves [m1, ..., mn] in the queue it is given
\* during one on_event call, the call on the mapped handle appends exactly
\* [f(m1), ..., f(mn)] to the caller's queue, in that order.
C1_MapAppendsMappedInOrder ==
    [][OnEventThroughMap =>
         LET emitted == ContentOnEvent(<<>>).messages
         IN /\ Len(messages') = Len(messages) + Len(emitted)
            /\ \A i \in 1..Len(messages) : messages'[i] = messages[i]
            /\ \A i \in 1..Len(emitted) :
                  messages'[Len(messages) + i] =
                      element.overlay.mapper[emitted[i]]]_vars

\* A burst of two messages has gone through one adapter into an empty queue.
C1_Witness ==
    /\ last.op = "on_event" /\ last.result = "Captured"
    /\ Depth(element.overlay) = 1
    /\ element.overlay.content.tag = "burst"
    /\ element.overlay.content.state = 0
    /\ messages = <<element.overlay.mapper[2], element.overlay.mapper[0]>>
    /\ element.overlay.mapper[2] # element.overlay.mapper[0]

\* C2 as stated: the outcome of on_event on the mapped handle equals the
\* outcome the unmapped overlay returns for the same event, layout, cursor
\* position and caller queue, from the same overlay state.
C2_OutcomeAsOnCallerQueue ==
    [][OnEventThroughMap =>
         last'.result = ContentOnEvent(messages).interaction]_vars

\* C2 amended: the outcome of on_event on the mapped handle equals the outcome
\* the unmapped overlay returns for the same event, layout and cursor
\* position when it is handed an empty queue, from the same overlay state.
C2_OutcomeAsOnEmptyQueue ==
    [][OnEventThroughMap =>
         last'.result = ContentOnEvent(<<>>).interaction]_vars

\* A mapped overlay that pushes only into an empty queue has captured a press
\* while the caller's queue already held a message.
C2_Witness ==
    /\ last.op = "on_event" /\ last.event = "press"
    /\ last.result = "Captured"
    /\ IsMap(element.overlay)
    /\ Innermost(element.overlay).tag = "exclusive"
    /\ Len(messages) = 2

\* C3: h.map(f).map(g) and h.map(|x| g(f(x))), put through the same calls,
\* have the same position, leave the innermost overlay in the same state,
\* hold the same messages in the caller's queue and return the same results.
C3_DoubleMapComposes ==
    /\ fused.element.position = element.position
    /\ Innermost(fused.element.overlay) = Innermost(element.overlay)
    /\ fused.messages = messages
    /\ fused.result = last.result

\* Two adapters with mappers that do not commute stand where the second
\* handle has one, and an on_event call has delivered two messages.
C3_Witness ==
    /\ last.op = "on_event"
    /\ Depth(element.overlay) = 2 /\ Depth(fused.element.overlay) = 1
    /\ element.overlay.mapper # element.overlay.content.mapper
    /\ Innermost(element.overlay).tag = "burst"
    /\ Len(messages) = 2 /\ queue0 = <<>>

\* C4: layout and hash_layout on a mapped overlay give what the wrapped
\* overlay gives for the same bounds, anchor and hash sink.
C4_MapIsLayoutTransparent ==
    /\ (last.op = "layout" /\ IsMap(element.overlay)) =>
          /\ last.result = DynLayout(element.overlay.content, last.bounds,
                                     element.position)
          /\ last.result = OverlayLayout(Innermost(element.overlay),
                                         last.bounds, element.position)
    /\ (last.op = "hash_layout" /\ IsMap(element.overlay)) =>
          /\ last.result = DynHashLayout(element.overlay.content, last.before,
                                         element.position)
          /\ last.result = OverlayHashLayout(Innermost(element.overlay),
                                             last.before, element.position)

\* A translated, mapped handle has been laid out in bounds that clip it.
C4_Witness ==
    /\ last.op = "layout"
    /\ IsMap(element.overlay)
    /\ element.position # created
    /\ last.result.width < ContentSize(Innermost(element.overlay)).width
    /\ last.result.x = element.position.x

\* C5: h.translate(v1).translate(v2) has the position of
\* h.translate(v1 + v2), and the same overlay.
C5_TranslateComposes ==
    \A v1 \in Vectors, v2 \in Vectors :
       LET twice == ElementTranslate(ElementTranslate(element, v1), v2)
           once == ElementTranslate(element, VectorAdd(v1, v2))
       IN /\ twice.position = once.position
          /\ twice.overlay = once.overlay
          /\ once.overlay = element.overlay

\* The handle has been translated twice and stands where one translate by
\* the sum puts it.
C5_Witness ==
    /\ last.op = "translate"
    /\ Len(translations) = 2
    /\ element.position # created
    /\ element.position =
          ElementTranslate(ElementNew(created, element.overlay),
                           VectorAdd(translations[1], translations[2])).position

\* C6: layout, on_event, draw, hash_layout and map leave the position as it
\* is; it changes in translate alone.
C6_PositionChangesOnlyInTranslate ==
    [][/\ last'.op \in {"layout", "on_event", "draw", "hash_layout", "map"}
          => element'.position = element.position
       /\ element'.position # element.position => last'.op = "translate"]_vars

\* A translated handle has been mapped.
C6_Witness ==
    /\ last.op = "map"
    /\ translations # <<>>
    /\ element.position = PointAdd(created, SumVectors(translations))
    /\ element.position # Point(0, 0)

Anchor == PointAdd(created, SumVectors(translations))

\* C7: layout and hash_layout hand the innermost overlay the position the
\* handle was created at plus every translation made since.
C7_AnchorIsCurrentPosition ==
    /\ element.position = Anchor
    /\ last.op = "layout" =>
          last.result = OverlayLayout(Innermost(element.overlay), last.bounds,
                                      Anchor)
    /\ last.op = "hash_layout" =>
          last.result = OverlayHashLayout(Innermost(element.overlay),
                                          last.before, Anchor)

\* A handle translated twice and mapped twice has been hashed.
C7_Witness ==
    /\ last.op = "hash_layout"
    /\ Len(translations) = 2
    /\ Depth(element.overlay) = 2
    /\ Anchor # created

ReadOnlyCall == last'.op \in {"layout", "draw", "hash_layout"}

\* C8 as stated: the wrapped overlay's state after the adapter's on_event is
\* its state after a direct on_event with the same event and caller queue;
\* layout, draw and hash_layout leave it as it is.
C8_ContentAsOnCallerQueue ==
    [][/\ OnEventThroughMap =>
             element'.overlay.content = ContentOnEvent(messages).overlay
       /\ ReadOnlyCall => element'.overlay = element.overlay]_vars

\* C8 amended: the wrapped overlay's state after the adapter's on_event is its
\* state after a direct on_event with the same event and an empty queue;
\* layout, draw and hash_layout leave it as it is.
C8_ContentAsOnEmptyQueue ==
    [][/\ OnEventThroughMap =>
             /\ element'.overlay.content = ContentOnEvent(<<>>).overlay
             /\ element'.overlay.mapper = element.overlay.mapper
       /\ ReadOnlyCall => element'.overlay = element.overlay]_vars

\* A mapped menu has taken a pointer move over its second item.
C8_Witness ==
    /\ last.op = "on_event" /\ last.event = "move"
    /\ IsMap(element.overlay)
    /\ Innermost(element.overlay).tag = "menu"
    /\ Innermost(element.overlay).state = 2
    /\ messages # <<>>

\* C9: two hash_layout calls with no translate and no on_event between them
\* feed the same content into the hash sink.
C9_HashIsStable ==
    (last.op = "hash_layout" /\ last.previous # <<>>) =>
        last.fed = last.previous[1]

\* A mapped handle has been hashed a second time, into a sink that already
\* held data.
C9_Witness ==
    /\ last.op = "hash_layout"
    /\ last.previous # <<>>
    /\ last.before # <<>>
    /\ IsMap(element.overlay)
    /\ Innermost(element.overlay).tag = "burst"
    /\ Len(last.fed) = 3

\* C10: an on_event call on a mapped handle keeps what the caller's queue
\* held as a prefix, and the queue is its contents before the first such call
\* followed by the mapped messages each call left in the buffer, call by call.
C10_MappedQueueIsAppendOnly ==
    [][OnEventThroughMap =>
         /\ IsPrefix(messages, messages')
         /\ queue0' = queue0
         /\ IsPrefix(delivered, delivered')
         /\ messages' = queue0' \o delivered']_vars

\* A mapped overlay that clears the queue it is given has handled a press
\* while the caller's queue held a message.
C10_Witness ==
    /\ last.op = "on_event" /\ last.result = "Captured"
    /\ IsMap(element.overlay)
    /\ Innermost(element.overlay).tag = "replace"
    /\ queue0 # <<>> /\ delivered # <<>>
    /\ messages = queue0 \o delivered

====
